---- MODULE Spec2Model ----
(***************************************************************************)
(* Model of gngram_counter/lookup.py: the hash-sharded lookup engine with  *)
(* its memoizing shard cache (_load_bucket), the fallback chain of exists  *)
(* and frequency, and the two passes of batch_frequency.                   *)
(*                                                                         *)
(* A word is a sequence of one-character strings.  A machine state m is a  *)
(* record [cache, reads, lookups, loads]: the lru_cache of _load_bucket    *)
(* (prefixes, least recently used first), the number of pl.read_parquet    *)
(* calls made per prefix, and the arguments of the _lookup_frequency and   *)
(* _load_bucket calls made so far by the running entry point.              *)
(***************************************************************************)
EXTENDS Integers, Sequences, FiniteSets, TLC

VARIABLES installed, files, corpus, cache, reads, ret, pc

vars == <<installed, files, corpus, cache, reads, ret, pc>>

(***************************************************************************)
(* Bounds of the model.                                                    *)
(***************************************************************************)
\* Longest list handed to batch_frequency.
MaxBatch == 2
\* Storage reads counted per prefix before the model stops issuing calls.
MaxReads == 2
\* Number of distinct shard prefixes the modelled digests spread over.
Buckets == 3
\* Hex digits of the modelled digest after the prefix.
SuffixLen == 5
\* Concurrent callers of the threaded specification.
NThreads == 2

(***************************************************************************)
(* Program constants.                                                      *)
(***************************************************************************)
\* A cache of two entries, small enough to overflow.
MAXSIZE_two == 1 + 1
\* @lru_cache(maxsize=256)
MAXSIZE == 256
\* h[:2], h[2:]
PrefixLen == 2
\* hexdigest(): digits are base 16
HexBase == 16

\* CONTRACTION_SUFFIXES, in the order of the tuple.
CONTRACTION_SUFFIXES ==
    << <<"n", "'", "t">>, <<"'", "l", "l">>, <<"'", "r", "e">>,
       <<"'", "v", "e">>, <<"'", "m">>, <<"'", "d">> >>

(***************************************************************************)
(* Inputs.                                                                 *)
(***************************************************************************)
Alphabet == <<"a", "b", "A", "-", "'", "s", "n", "t", "l", "r", "e", "v", "m", "d">>

\* Words a caller passes in.
Words ==
    { <<>>,
      <<"a">>, <<"A">>,
      <<"a", "'", "s">>,
      <<"a", "n", "'", "t">>,
      <<"a", "-", "b">>,
      <<"a", "-", "b", "'", "s">>,
      <<"-", "a">>,
      <<"'", "s">> }

\* Word forms that may have a row in the corpus.
CorpusWords == { <<>>, <<"a">>, <<"b">>, <<"a", "-", "b">> }

\* Words that appear in the lists handed to batch_frequency.
BatchWords ==
    { <<>>,
      <<"a">>, <<"A">>,
      <<"a", "'", "s">>,
      <<"a", "-", "b">>,
      <<"a", "-", "b", "'", "s">> }

BatchInputs == UNION { [1..n -> BatchWords] : n \in 0..MaxBatch }

Threads == 1..NThreads

\* The absent result (Python None).
None == [none |-> TRUE]

(***************************************************************************)
(* normalize (gngram_counter.normalize, an external collaborator):         *)
(* lower-cases the word.                                                   *)
(***************************************************************************)
Lower(c) == IF c = "A" THEN "a" ELSE c

normalize(word) == [i \in 1..Len(word) |-> Lower(word[i])]

(***************************************************************************)
(* Fallback resolver.                                                      *)
(***************************************************************************)
EndsWith(word, suffix) ==
    /\ Len(word) >= Len(suffix)
    /\ SubSeq(word, Len(word) - Len(suffix) + 1, Len(word)) = suffix

DropLast(word, n) == SubSeq(word, 1, Len(word) - n)

\* The loop over CONTRACTION_SUFFIXES, from index i on.
RECURSIVE ContractionFrom(_, _)
ContractionFrom(word, i) ==
    IF i > Len(CONTRACTION_SUFFIXES) THEN <<>>
    ELSE LET suffix == CONTRACTION_SUFFIXES[i]
         IN  IF EndsWith(word, suffix) /\ DropLast(word, Len(suffix)) # <<>>
             THEN <<DropLast(word, Len(suffix)), suffix>>
             ELSE ContractionFrom(word, i + 1)

\* _split_contraction(word): <<stem, suffix>>, or <<>> for None.
split_contraction(word) ==
    LET looped == ContractionFrom(word, 1)
    IN  IF looped # <<>> THEN looped
        ELSE IF EndsWith(word, <<"'", "s">>) /\ DropLast(word, 2) # <<>>
        THEN <<DropLast(word, 2), <<"'", "s">> >>
        ELSE <<>>

\* word.split("-"): the pieces between hyphens, empty ones included.
RECURSIVE SplitOn(_, _, _)
SplitOn(word, i, cur) ==
    IF i > Len(word) THEN <<cur>>
    ELSE IF word[i] = "-" THEN <<cur>> \o SplitOn(word, i + 1, <<>>)
    ELSE SplitOn(word, i + 1, Append(cur, word[i]))

\* _split_hyphenated(word): the non-empty parts, or <<>> for None.
split_hyphenated(word) ==
    LET parts == SelectSeq(SplitOn(word, 1, <<>>), LAMBDA p : p # <<>>)
    IN  IF ~(\E i \in 1..Len(word) : word[i] = "-") THEN <<>>
        ELSE IF Len(parts) < 2 THEN <<>>
        ELSE parts

(***************************************************************************)
(* hashlib.md5(...).hexdigest(): a fixed-length string of hex digits,      *)
(* determined by the bytes of the word.  The stand-in digest is injective  *)
(* on words of up to five characters; its first PrefixLen digits take      *)
(* Buckets values.                                                         *)
(***************************************************************************)
CharCode(c) == CHOOSE i \in 1..Len(Alphabet) : Alphabet[i] = c

RECURSIVE WordCode(_)
WordCode(w) ==
    IF w = <<>> THEN 0
    ELSE CharCode(Head(w)) + (Len(Alphabet) + 1) * WordCode(Tail(w))

RECURSIVE HexDigits(_, _)
HexDigits(n, len) ==
    IF len = 0 THEN <<>>
    ELSE Append(HexDigits(n \div HexBase, len - 1), n % HexBase)

\* Every normalized word form a call can hash: the inputs, their
\* contraction stems and their hyphen parts.
Forms ==
    LET N == { normalize(w) : w \in Words }
        S == { split_contraction(w)[1] :
                 w \in { x \in N : split_contraction(x) # <<>> } }
        H == UNION { { split_hyphenated(w)[i] : i \in 1..Len(split_hyphenated(w)) } :
                     w \in N }
    IN  N \cup S \cup H \cup CorpusWords

\* The digest of each form, computed once.
DigestTable ==
    [w \in Forms |->
        HexDigits(WordCode(w) % Buckets, PrefixLen)
            \o HexDigits(WordCode(w) \div Buckets, SuffixLen)]

HexDigest(w) == DigestTable[w]

\* _hash_word: (h[:2], h[2:]) of the digest of the normalized word.
hash_word(word) ==
    LET h == HexDigest(normalize(word))
    IN  <<SubSeq(h, 1, PrefixLen), SubSeq(h, PrefixLen + 1, Len(h))>>

\* The prefixes the modelled digests can take.
ShardIds == { HexDigits(b, PrefixLen) : b \in 0..(Buckets - 1) }

(***************************************************************************)
(* Backing storage: the parquet file of a prefix, when it exists, holds    *)
(* one row per corpus word hashing to that prefix.                         *)
(***************************************************************************)
FrequencyData(w) ==
    [peak_tf |-> 1800 + (WordCode(w) % 7),
     peak_df |-> 1900 + (WordCode(w) % 5),
     sum_tf  |-> 10 * WordCode(w),
     sum_df  |-> WordCode(w)]

\* The row of each corpus word and the file it is in, computed once.
RowTable ==
    [w \in CorpusWords |->
        [prefix |-> hash_word(w)[1],
         row    |-> [hash |-> hash_word(w)[2], data |-> FrequencyData(w)]]]

\* pl.read_parquet(get_hash_file(prefix)) for an existing file.
read_parquet(prefix) ==
    { RowTable[w].row : w \in { x \in corpus : RowTable[x].prefix = prefix } }

(***************************************************************************)
(* _load_bucket under functools.lru_cache(maxsize=256).                    *)
(***************************************************************************)
InCache(c, prefix) == \E i \in 1..Len(c) : c[i] = prefix

\* A hit moves the entry to the most recently used end.
lru_touch(c, prefix) == SelectSeq(c, LAMBDA x : x # prefix) \o <<prefix>>

\* Storing a computed result: nothing when the key arrived meanwhile, else
\* the least recently used entry is dropped once the cache is full.
lru_store(c, prefix) ==
    IF InCache(c, prefix) THEN c
    ELSE IF Len(c) >= MAXSIZE THEN Append(Tail(c), prefix)
    ELSE Append(c, prefix)

\* The outcomes of one call of _load_bucket(prefix): a hit, a read that
\* raised FileNotFoundError (lru_cache stores no entry for a call that
\* raised), a read whose result is stored.  ok is FALSE when it raised.
load_hit(prefix, m) ==
    [m |-> [m EXCEPT !.cache = lru_touch(@, prefix)], ok |-> TRUE]

load_miss(prefix, m) ==
    IF prefix \notin files THEN [m |-> m, ok |-> FALSE]
    ELSE [m |-> [m EXCEPT !.cache = lru_store(@, prefix)], ok |-> TRUE]

load_bucket(prefix, m) ==
    IF InCache(m.cache, prefix)
    THEN load_hit(prefix, [m EXCEPT !.loads = Append(@, prefix)])
    ELSE load_miss(prefix, [m EXCEPT !.loads = Append(@, prefix),
                                     !.reads[prefix] = @ + 1])

\* df.filter(pl.col("hash") == suffix)
FilterHash(df, suffix) == { r \in df : r.hash = suffix }

\* The tail of _lookup_frequency, once _load_bucket is back: ld is its
\* outcome, row the filtered rows of the bucket.
lookup_row(ld, row) ==
    [m   |-> ld.m,
     val |-> IF ~ld.ok \/ row = {} THEN None ELSE (CHOOSE r \in row : TRUE).data]

\* _lookup_frequency(word): no fallbacks.
lookup_frequency(word, m) ==
    IF word = <<>>
    THEN [m |-> [m EXCEPT !.lookups = Append(@, word)], val |-> None]
    ELSE lookup_row(load_bucket(hash_word(word)[1],
                                [m EXCEPT !.lookups = Append(@, word)]),
                    FilterHash(read_parquet(hash_word(word)[1]),
                               hash_word(word)[2]))

(***************************************************************************)
(* The stages shared by the fallback chains.  Each entry point below is    *)
(* written stage by stage: a stage takes the outcome of the one before.    *)
(***************************************************************************)
\* parts = _split_contraction(word); if parts: _lookup_frequency(stem)
stem_lookup(w, m) ==
    IF split_contraction(w) # <<>>
    THEN lookup_frequency(split_contraction(w)[1], m)
    ELSE [m |-> m, val |-> None]

\* all(_lookup_frequency(p) is not None for p in hyp_parts), from part i on:
\* the generator stops at the first part that does not resolve.
RECURSIVE all_parts(_, _, _)
RECURSIVE all_parts_step(_, _, _)
all_parts_step(parts, i, r) ==
    IF r.val = None THEN [m |-> r.m, ok |-> FALSE]
    ELSE all_parts(parts, i + 1, r.m)

all_parts(parts, i, m) ==
    IF i > Len(parts) THEN [m |-> m, ok |-> TRUE]
    ELSE all_parts_step(parts, i, lookup_frequency(parts[i], m))

\* hyp_parts = _split_hyphenated(word); if hyp_parts: all(...)
hyphen_gate(w, m) ==
    IF split_hyphenated(w) # <<>> THEN all_parts(split_hyphenated(w), 1, m)
    ELSE [m |-> m, ok |-> FALSE]

(***************************************************************************)
(* Entry points.  Each takes the machine state it starts from and yields   *)
(* the machine state it ends in with what the caller gets: outcome is      *)
(* "ok", or the FileNotFoundError raised ("DataNotInstalled" by the guard  *)
(* on is_data_installed, "ShardNotFound" by read_parquet).                 *)
(***************************************************************************)
Raised(m, err) ==
    [m |-> m, outcome |-> err, found |-> FALSE, freq |-> None, results |-> <<>>]

ReturnedBool(m, b) ==
    [m |-> m, outcome |-> "ok", found |-> b, freq |-> None, results |-> <<>>]

ReturnedFreq(m, f) ==
    [m |-> m, outcome |-> "ok", found |-> f # None, freq |-> f, results |-> <<>>]

ReturnedDict(m, d) ==
    [m |-> m, outcome |-> "ok", found |-> FALSE, freq |-> None, results |-> d]

\* exists: the hyphenated fallback and the final return False.
exists_hyphen(gate) == ReturnedBool(gate.m, gate.ok)

\* exists: after the contraction/possessive fallback.
exists_stem(w, stem) ==
    IF stem.val # None THEN ReturnedBool(stem.m, TRUE)
    ELSE exists_hyphen(hyphen_gate(w, stem.m))

\* exists: after the direct lookup.
exists_direct(w, direct) ==
    IF direct.val # None THEN ReturnedBool(direct.m, TRUE)
    ELSE exists_stem(w, stem_lookup(w, direct.m))

\* exists, after the is_data_installed guard.
exists_body(word, m) ==
    exists_direct(normalize(word), lookup_frequency(normalize(word), m))

exists(word, m) ==
    IF ~installed THEN Raised(m, "DataNotInstalled") ELSE exists_body(word, m)

\* frequency_hyphen gated on the first part alone.
frequency_hyphen_first_only(w, m) ==
    IF split_hyphenated(w) = <<>> THEN [m |-> m, val |-> None]
    ELSE lookup_frequency(split_hyphenated(w)[1], m)

\* The first part's record once the gate is through.
first_part(w, gate) ==
    IF gate.ok THEN lookup_frequency(split_hyphenated(w)[1], gate.m)
    ELSE [m |-> gate.m, val |-> None]

\* The last part's record once the gate is through.
last_part(w, gate) ==
    IF gate.ok
    THEN lookup_frequency(split_hyphenated(w)[Len(split_hyphenated(w))], gate.m)
    ELSE [m |-> gate.m, val |-> None]

\* frequency_hyphen surfacing the last part's record.
frequency_hyphen_last(w, m) == last_part(w, hyphen_gate(w, m))

\* frequency: the hyphenated fallback: the first part's record once every
\* part resolved.
frequency_hyphen(w, m) == first_part(w, hyphen_gate(w, m))

\* frequency: after the contraction/possessive fallback.
frequency_stem(w, stem) ==
    IF stem.val # None THEN stem ELSE frequency_hyphen(w, stem.m)

\* frequency trying the contraction stem only after the hyphen parts.
frequency_stem_last(w, hyp) ==
    IF hyp.val # None THEN hyp ELSE stem_lookup(w, hyp.m)

frequency_direct_hyphen_first(w, direct) ==
    IF direct.val # None THEN direct
    ELSE frequency_stem_last(w, frequency_hyphen(w, direct.m))

\* frequency: after the direct lookup.
frequency_direct(w, direct) ==
    IF direct.val # None THEN direct
    ELSE frequency_stem(w, stem_lookup(w, direct.m))

\* The stages of frequency on the normalized word.
frequency_chain(w, m) == frequency_direct(w, lookup_frequency(w, m))

FreqOf(r) == ReturnedFreq(r.m, r.val)

\* frequency, after the is_data_installed guard.
frequency_body(word, m) == FreqOf(frequency_chain(normalize(word), m))

frequency(word, m) ==
    IF ~installed THEN Raised(m, "DataNotInstalled") ELSE frequency_body(word, m)

(***************************************************************************)
(* batch_frequency.  by_prefix is the dict in insertion order: a sequence  *)
(* of [prefix, entries], entries being (word, normalized, suffix) tuples.  *)
(***************************************************************************)
AddEntry(by_prefix, prefix, entry) ==
    IF \E k \in 1..Len(by_prefix) : by_prefix[k].prefix = prefix
    THEN [k \in 1..Len(by_prefix) |->
            IF by_prefix[k].prefix = prefix
            THEN [by_prefix[k] EXCEPT !.entries = Append(@, entry)]
            ELSE by_prefix[k]]
    ELSE Append(by_prefix, [prefix |-> prefix, entries |-> <<entry>>])

\* The grouping loop, from word i on.
RECURSIVE group_by_prefix(_, _, _)
group_by_prefix(words, i, by_prefix) ==
    IF i > Len(words) THEN by_prefix
    ELSE group_by_prefix(words, i + 1,
             AddEntry(by_prefix, hash_word(normalize(words[i]))[1],
                      [word       |-> words[i],
                       normalized |-> normalize(words[i]),
                       suffix     |-> hash_word(normalize(words[i]))[2]]))

\* results[word] = v
SetItem(results, word, v) ==
    [x \in (DOMAIN results) \cup {word} |-> IF x = word THEN v ELSE results[x]]

\* direct_entry leaving a word that found no row without a key.
direct_entry_no_none(entry, row, b) ==
    IF row # {}
    THEN [b EXCEPT !.results =
             SetItem(@, entry.word, (CHOOSE r \in row : TRUE).data)]
    ELSE [b EXCEPT !.fallback_words = Append(@, entry.word)]

\* One entry of a prefix's group: row is its match in match_dict, b is
\* [results, fallback_words].
direct_entry(entry, row, b) ==
    IF row # {}
    THEN [b EXCEPT !.results =
             SetItem(@, entry.word, (CHOOSE r \in row : TRUE).data)]
    ELSE [results        |-> SetItem(b.results, entry.word, None),
          fallback_words |-> Append(b.fallback_words, entry.word)]

RECURSIVE direct_entries(_, _, _, _)
direct_entries(entries, j, match_dict, b) ==
    IF j > Len(entries) THEN b
    ELSE direct_entries(entries, j + 1, match_dict,
             direct_entry(entries[j],
                          FilterHash(match_dict, entries[j].suffix), b))

\* matches = df.filter(pl.col("hash").is_in(suffixes)), as match_dict
MatchDict(df, entries) ==
    { r \in df : r.hash \in { entries[j].suffix : j \in 1..Len(entries) } }

\* The loop over by_prefix.items(), from group k on.  raised is TRUE when
\* _load_bucket raised out of the loop.
RECURSIVE direct_pass(_, _, _, _)
RECURSIVE direct_group(_, _, _, _)
direct_group(by_prefix, k, ld, b) ==
    IF ~ld.ok THEN [raised |-> TRUE, m |-> ld.m, b |-> b]
    ELSE direct_pass(by_prefix, k + 1, ld.m,
             direct_entries(by_prefix[k].entries, 1,
                 MatchDict(read_parquet(by_prefix[k].prefix),
                           by_prefix[k].entries),
                 b))

direct_pass(by_prefix, k, m, b) ==
    IF k > Len(by_prefix) THEN [raised |-> FALSE, m |-> m, b |-> b]
    ELSE direct_group(by_prefix, k, load_bucket(by_prefix[k].prefix, m), b)

\* One fallback word: the hyphenated fallback.
fallback_first(word, first, results) ==
    [m |-> first.m, results |-> SetItem(results, word, first.val)]

fallback_hyphen(word, gate, results) ==
    IF gate.ok
    THEN fallback_first(word,
             lookup_frequency(split_hyphenated(normalize(word))[1], gate.m),
             results)
    ELSE [m |-> gate.m, results |-> results]

\* One fallback word: after the contraction/possessive fallback.
fallback_stem(word, stem, results) ==
    IF stem.val # None
    THEN [m |-> stem.m, results |-> SetItem(results, word, stem.val)]
    ELSE fallback_hyphen(word, hyphen_gate(normalize(word), stem.m), results)

\* One word of the fallback loop.
fallback_word(word, m, results) ==
    fallback_stem(word, stem_lookup(normalize(word), m), results)

RECURSIVE fallback_pass(_, _, _)
RECURSIVE fallback_next(_, _, _)
fallback_next(fallback_words, i, r) ==
    fallback_pass(fallback_words, i + 1, r)

\* The fallback loop, from word i on: r is [m, results].
fallback_pass(fallback_words, i, r) ==
    IF i > Len(fallback_words) THEN r
    ELSE fallback_next(fallback_words, i,
                       fallback_word(fallback_words[i], r.m, r.results))

batch_fallback(direct) ==
    IF direct.raised THEN direct
    ELSE fallback_pass(direct.b.fallback_words, 1,
                       [m |-> direct.m, results |-> direct.b.results])

BatchOf(direct, fb) ==
    IF direct.raised THEN Raised(direct.m, "ShardNotFound")
    ELSE ReturnedDict(fb.m, fb.results)

batch_passes(direct) == BatchOf(direct, batch_fallback(direct))

\* batch_frequency, after the is_data_installed guard.
batch_frequency_body(words, m) ==
    batch_passes(direct_pass(group_by_prefix(words, 1, <<>>), 1, m,
                             [results |-> <<>>, fallback_words |-> <<>>]))

\* batch_frequency without the is_data_installed guard.
batch_frequency_unguarded(words, m) == batch_frequency_body(words, m)

batch_frequency(words, m) ==
    IF ~installed THEN Raised(m, "DataNotInstalled")
    ELSE batch_frequency_body(words, m)

(***************************************************************************)
(* The sequential specification: one caller, one call at a time.           *)
(***************************************************************************)
Idle == [at |-> "idle", word |-> <<>>, prefix |-> <<>>]

NoCall ==
    [op |-> "none", words |-> <<>>, outcome |-> "none", found |-> FALSE,
     freq |-> None, results |-> <<>>, lookups |-> <<>>, loads |-> <<>>]

Init ==
    /\ installed \in BOOLEAN
    /\ files \in SUBSET ShardIds
    /\ corpus \in { c \in SUBSET CorpusWords :
                      \A w \in c : hash_word(w)[1] \in files }
    /\ cache = <<>>
    /\ reads = [p \in ShardIds |-> 0]
    /\ ret = NoCall
    /\ pc = [t \in Threads |-> Idle]

\* The machine state a call starts from.
M0 == [cache |-> cache, reads |-> reads, lookups |-> <<>>, loads |-> <<>>]

\* What the caller and the log keep of a finished call.
Outcome(op, args, r) ==
    [op |-> op, words |-> args, outcome |-> r.outcome,
     found |-> r.found, freq |-> r.freq, results |-> r.results,
     lookups |-> r.m.lookups, loads |-> r.m.loads]

\* A call that ran to its return or raise: ret holds what came back until
\* the caller has taken it.
Finish(op, args, r) ==
    /\ ret = NoCall
    /\ \A p \in ShardIds : r.m.reads[p] <= MaxReads
    /\ cache' = r.m.cache
    /\ reads' = r.m.reads
    /\ ret' = Outcome(op, args, r)
    /\ UNCHANGED <<installed, files, corpus, pc>>

CallExists(w) == Finish("exists", <<w>>, exists(w, M0))

CallFrequency(w) == Finish("frequency", <<w>>, frequency(w, M0))

CallBatchFrequency(ws) == Finish("batch_frequency", ws, batch_frequency(ws, M0))

\* The caller takes the result and goes on to its next call.
Collect ==
    /\ ret # NoCall
    /\ ret' = NoCall
    /\ UNCHANGED <<installed, files, corpus, cache, reads, pc>>

Next ==
    \/ \E w \in Words : CallExists(w)
    \/ \E w \in Words : CallFrequency(w)
    \/ \E ws \in BatchInputs : CallBatchFrequency(ws)
    \/ Collect

Spec == Init /\ [][Next]_vars

(***************************************************************************)
(* The threaded specification: NThreads callers run _lookup_frequency      *)
(* side by side.  lru_cache looks the key up, calls _load_bucket without   *)
(* holding any lock when the key is absent, and stores the result once the *)
(* call is back; read_parquet releases the interpreter lock while it       *)
(* reads, so other callers run between the three steps.                    *)
(***************************************************************************)
\* Words the callers look up; the empty word returns before _hash_word.
ConcWords == CorpusWords \ { <<>> }

InitConc == Init /\ installed

\* The call up to the cache lookup: a hit is served at once.
ThreadCall(t, w) ==
    LET prefix == hash_word(w)[1]
    IN  /\ pc[t].at = "idle"
        /\ IF InCache(cache, prefix)
           THEN /\ cache' = lru_touch(cache, prefix)
                /\ UNCHANGED pc
           ELSE /\ pc' = [pc EXCEPT ![t] =
                            [at |-> "reading", word |-> w, prefix |-> prefix]]
                /\ UNCHANGED cache
        /\ UNCHANGED <<installed, files, corpus, reads, ret>>

\* pl.read_parquet: a missing file raises, and _lookup_frequency returns None.
ThreadRead(t) ==
    /\ pc[t].at = "reading"
    /\ reads[pc[t].prefix] < MaxReads
    /\ reads' = [reads EXCEPT ![pc[t].prefix] = @ + 1]
    /\ pc' = [pc EXCEPT ![t] =
                IF pc[t].prefix \in files THEN [@ EXCEPT !.at = "storing"]
                ELSE Idle]
    /\ UNCHANGED <<installed, files, corpus, cache, ret>>

\* lru_cache stores the result, unless the key arrived meanwhile.
ThreadStore(t) ==
    /\ pc[t].at = "storing"
    /\ cache' = lru_store(cache, pc[t].prefix)
    /\ pc' = [pc EXCEPT ![t] = Idle]
    /\ UNCHANGED <<installed, files, corpus, reads, ret>>

NextConc ==
    \/ \E t \in Threads : \E w \in ConcWords : ThreadCall(t, w)
    \/ \E t \in Threads : ThreadRead(t)
    \/ \E t \in Threads : ThreadStore(t)

SpecConc == InitConc /\ [][NextConc]_vars

(***************************************************************************)
(* What the storage holds, stated without the engine: the vocabulary of    *)
(* the properties below.                                                   *)
(***************************************************************************)
\* The word form has a row in a shard file that exists.
InStore(w) == w \in corpus /\ RowTable[w].prefix \in files

\* A direct lookup of the word form finds it: the empty word is never
\* looked up.
Resolves(w) == w # <<>> /\ InStore(w)

StemProbe(w) ==
    IF split_contraction(w) = <<>> THEN <<>> ELSE <<split_contraction(w)[1]>>

StemResolves(w) ==
    split_contraction(w) # <<>> /\ Resolves(split_contraction(w)[1])

AllResolve(parts) == \A i \in 1..Len(parts) : Resolves(parts[i])

\* The parts tried by the all-parts gate: up to the first that fails.
RECURSIVE GateProbes(_, _)
GateProbes(parts, i) ==
    IF i > Len(parts) THEN <<>>
    ELSE IF Resolves(parts[i]) THEN <<parts[i]>> \o GateProbes(parts, i + 1)
    ELSE <<parts[i]>>

\* again: the first part is looked up once more for its record.
HyphenProbes(w, again) ==
    LET parts == split_hyphenated(w)
    IN  IF parts = <<>> THEN <<>>
        ELSE GateProbes(parts, 1)
               \o (IF again /\ AllResolve(parts) THEN <<parts[1]>> ELSE <<>>)

FallbackProbes(w, again) ==
    StemProbe(w) \o (IF StemResolves(w) THEN <<>> ELSE HyphenProbes(w, again))

ChainProbes(w, again) ==
    <<w>> \o (IF Resolves(w) THEN <<>> ELSE FallbackProbes(w, again))

\* The record of the first stage that resolves.
StageResult(w) ==
    IF Resolves(w) THEN FrequencyData(w)
    ELSE IF StemResolves(w) THEN FrequencyData(split_contraction(w)[1])
    ELSE IF split_hyphenated(w) # <<>> /\ AllResolve(split_hyphenated(w))
    THEN FrequencyData(split_hyphenated(w)[1])
    ELSE None

\* The order in which a batch reaches its words: by first occurrence of
\* the word's prefix, then by position.
BatchOrder(words) ==
    LET n        == Len(words)
        First(i) == CHOOSE j \in 1..n :
                      /\ hash_word(words[j])[1] = hash_word(words[i])[1]
                      /\ \A k \in 1..(j - 1) :
                           hash_word(words[k])[1] # hash_word(words[i])[1]
        Key(i)   == First(i) * (n + 1) + i
    IN  SortSeq([i \in 1..n |-> i], LAMBDA a, b : Key(a) < Key(b))

RECURSIVE BatchProbes(_, _, _)
BatchProbes(words, order, k) ==
    IF k > Len(order) THEN <<>>
    ELSE LET w == normalize(words[order[k]])
         IN  (IF InStore(w) THEN <<>> ELSE FallbackProbes(w, TRUE))
               \o BatchProbes(words, order, k + 1)

\* The record a batch holds for a word: its row when the direct pass finds
\* one, else the record of the first fallback stage that resolves.
BatchResult(w) == IF InStore(w) THEN FrequencyData(w) ELSE StageResult(w)

RecordFields == {"peak_tf", "peak_df", "sum_tf", "sum_df"}

Called(op) == ret.op = op /\ ret.outcome = "ok"

(***************************************************************************)
(* C1.  With data installed, batch_frequency(words)[w] equals              *)
(* frequency(w) for every w of the list.                                   *)
(***************************************************************************)
C1_BatchEqualsSingle ==
    (installed /\ ret.op = "batch_frequency") =>
        /\ ret.outcome = "ok"
        /\ \A i \in 1..Len(ret.words) :
             /\ frequency(ret.words[i], M0).outcome = "ok"
             /\ ret.results[ret.words[i]] = frequency(ret.words[i], M0).freq

\* C1 for the calls that return: the entries of the returned mapping.
C1_WhenReturned ==
    (installed /\ Called("batch_frequency")) =>
        \A i \in 1..Len(ret.words) :
            ret.results[ret.words[i]] = frequency(ret.words[i], M0).freq

(***************************************************************************)
(* C2.  With data installed, no entry point raises the shard-not-found     *)
(* error: a missing shard file only makes the word absent.                 *)
(***************************************************************************)
C2_MissingShardIsAbsence ==
    (installed /\ ret.op # "none") => ret.outcome = "ok"

(***************************************************************************)
(* C3.  When is_data_installed() is false every call fails with the        *)
(* data-not-installed error before any lookup, cache access or storage     *)
(* read.                                                                   *)
(***************************************************************************)
C3_NotInstalledRaisesFirst ==
    (~installed /\ ret.op # "none") =>
        /\ ret.outcome = "DataNotInstalled"
        /\ ret.lookups = <<>>
        /\ ret.loads = <<>>
        /\ cache = <<>>
        /\ \A p \in ShardIds : reads[p] = 0

C3_Witness ==
    /\ ~installed
    /\ files # {}
    /\ ret.op = "batch_frequency"
    /\ ret.words = <<>>
    /\ ret.outcome = "DataNotInstalled"

(***************************************************************************)
(* C4.  Concurrent first-time lookups of words in one cold prefix read the *)
(* shard file of that prefix exactly once.                                 *)
(***************************************************************************)
C4_SingleFlight == \A p \in files : reads[p] <= 1

(***************************************************************************)
(* C5.  exists(w) is true exactly when frequency(w) is not None.           *)
(***************************************************************************)
C5_ExistsIffFrequency ==
    /\ Called("exists") =>
         ret.found = (frequency(ret.words[1], M0).freq # None)
    /\ Called("frequency") =>
         exists(ret.words[1], M0).found = (ret.freq # None)

\* "a-b" where "a" resolves and "b" does not: exists is false.
C5_Witness ==
    /\ Called("exists")
    /\ ret.words = << <<"a", "-", "b">> >>
    /\ Resolves(<<"a">>)
    /\ ~Resolves(<<"b">>)
    /\ ~ret.found

\* A word left to the hyphenated fallback: no direct match, no resolving
\* stem, two or more non-empty parts.
HyphenCase(w) ==
    /\ ~Resolves(w)
    /\ ~StemResolves(w)
    /\ split_hyphenated(w) # <<>>

(***************************************************************************)
(* C6.  For a word with no direct match and no resolving stem that splits  *)
(* into two or more hyphen parts, frequency returns the first part's       *)
(* record when every part resolves and None otherwise, and exists is true  *)
(* exactly when every part resolves.                                       *)
(***************************************************************************)
C6_HyphenResult ==
    LET w     == normalize(ret.words[1])
        parts == split_hyphenated(w)
    IN  /\ (Called("frequency") /\ HyphenCase(w)) =>
             ret.freq = (IF AllResolve(parts) THEN FrequencyData(parts[1])
                         ELSE None)
        /\ (Called("exists") /\ HyphenCase(w)) =>
             ret.found = AllResolve(parts)

\* Both parts of "a-b" resolve, the compound does not: the record of "a".
C6_Witness ==
    /\ Called("frequency")
    /\ ret.words = << <<"a", "-", "b">> >>
    /\ HyphenCase(<<"a", "-", "b">>)
    /\ Resolves(<<"a">>)
    /\ Resolves(<<"b">>)
    /\ ret.freq = FrequencyData(<<"a">>)
    /\ ret.freq # FrequencyData(<<"b">>)

(***************************************************************************)
(* C7.  The attempts are made in the order direct, stem, hyphen parts, and *)
(* stop at the first stage that resolves, whose result is returned: the    *)
(* lookups a call makes are exactly those up to that stage.                *)
(***************************************************************************)
C7_FallbackOrder ==
    /\ Called("exists") =>
         /\ ret.lookups = ChainProbes(normalize(ret.words[1]), FALSE)
         /\ ret.found = (StageResult(normalize(ret.words[1])) # None)
    /\ Called("frequency") =>
         /\ ret.lookups = ChainProbes(normalize(ret.words[1]), TRUE)
         /\ ret.freq = StageResult(normalize(ret.words[1]))
    /\ Called("batch_frequency") =>
         /\ ret.lookups = BatchProbes(ret.words, BatchOrder(ret.words), 1)
         /\ \A i \in 1..Len(ret.words) :
              ret.results[ret.words[i]] = BatchResult(normalize(ret.words[i]))

\* "a-b's" whose stem "a-b" resolves: no hyphen part is looked up.
C7_Witness ==
    /\ Called("frequency")
    /\ ret.words = << <<"a", "-", "b", "'", "s">> >>
    /\ Resolves(<<"a", "-", "b">>)
    /\ Resolves(<<"a">>)
    /\ ret.lookups = << <<"a", "-", "b", "'", "s">>, <<"a", "-", "b">> >>
    /\ ret.freq = FrequencyData(<<"a", "-", "b">>)

(***************************************************************************)
(* C8.  When batch_frequency returns, the keys of its result are exactly   *)
(* the distinct input words as given, and each holds a four-field record   *)
(* or None.                                                                *)
(***************************************************************************)
C8_BatchShape ==
    Called("batch_frequency") =>
        /\ DOMAIN ret.results = { ret.words[i] : i \in 1..Len(ret.words) }
        /\ \A w \in DOMAIN ret.results :
             \/ ret.results[w] = None
             \/ DOMAIN ret.results[w] = RecordFields

\* "A" given twice: one key, the string as given, with the record of "a".
C8_Witness ==
    /\ Called("batch_frequency")
    /\ ret.words = << <<"A">>, <<"A">> >>
    /\ DOMAIN ret.results = { <<"A">> }
    /\ ret.results[<<"A">>] = FrequencyData(<<"a">>)

(***************************************************************************)
(* C9.  The storage read of a prefix is attempted at most once over any    *)
(* sequence of lookups, a failed read included.                            *)
(***************************************************************************)
C9_OneReadPerPrefix == \A p \in ShardIds : reads[p] <= 1

\* The strings of PrefixLen hex digits.
PrefixSpace == [1..PrefixLen -> 0..(HexBase - 1)]

\* The prefixes whose shard the cache holds.
Resident(c) == { c[i] : i \in 1..Len(c) }

\* The cache is within its capacity, and so is the space of prefixes.
CacheBounded ==
    /\ Len(cache) <= MAXSIZE
    /\ Cardinality(Resident(cache)) = Len(cache)
    /\ Resident(cache) \subseteq PrefixSpace
    /\ Cardinality(PrefixSpace) <= MAXSIZE

(***************************************************************************)
(* C10.  Under sequential calls the cache never holds more than its        *)
(* capacity, every resident prefix is one of the HexBase^PrefixLen         *)
(* two-digit prefixes, which are no more than the capacity, and a shard    *)
(* once resident stays resident.                                           *)
(***************************************************************************)
C10_NoEviction ==
    [][CacheBounded' /\ Resident(cache) \subseteq Resident(cache')]_vars

\* More shards resident than a cache of two entries could keep.
C10_Witness ==
    /\ Len(cache) >= 3
    /\ ret.op = "exists"

====
